---- MODULE Spec2Model ----
(***************************************************************************)
(* TectonJobOperator (airflow_tecton/operators/tecton_job_operator.py):    *)
(* execute() finds a materialization job with the same parameters, cancels *)
(* it when it is running, returns when it succeeded (unless                *)
(* allow_overwrite), submits a new job (directly, or through the dataframe *)
(* ingest path), and polls the new job to a terminal state.  on_kill()     *)
(* cancels the recorded job.  The Tecton control plane behind TectonHook   *)
(* is the environment: it owns the jobs and moves them between states.     *)
(***************************************************************************)
EXTENDS Integers, Sequences, FiniteSets, TLC

(* ------------------------------------------------------------------ *)
(* Bounds                                                               *)
(* ------------------------------------------------------------------ *)
\* sleeps one invocation may take (both loops together)
MaxSleeps == 2

\* the invocations of the operator (attempts of one task, same parameters)
Invocations == {1, 2}

(* ------------------------------------------------------------------ *)
(* Strings: a str is a sequence of characters                          *)
(* ------------------------------------------------------------------ *)
UpperChars == <<"A","B","C","D","E","F","G","H","I","J","K","L","M",
                "N","O","P","Q","R","S","T","U","V","W","X","Y","Z">>
LowerChars == <<"a","b","c","d","e","f","g","h","i","j","k","l","m",
                "n","o","p","q","r","s","t","u","v","w","x","y","z">>

Chars == {UpperChars[k] : k \in 1..26} \cup {LowerChars[k] : k \in 1..26} \cup {"_"}

\* str.lower() and str.upper(), character by character
LowerChar ==
    [c \in Chars |->
        IF \E k \in 1..26 : UpperChars[k] = c
        THEN LowerChars[CHOOSE k \in 1..26 : UpperChars[k] = c]
        ELSE c]
UpperChar ==
    [c \in Chars |->
        IF \E k \in 1..26 : LowerChars[k] = c
        THEN UpperChars[CHOOSE k \in 1..26 : LowerChars[k] = c]
        ELSE c]

lower(s) == [k \in 1..Len(s) |-> LowerChar[s[k]]]
upper(s) == [k \in 1..Len(s) |-> UpperChar[s[k]]]

\* str.endswith(suffix)
endswith(s, suffix) ==
    /\ Len(s) >= Len(suffix)
    /\ SubSeq(s, Len(s) - Len(suffix) + 1, Len(s)) = suffix

running_lc == <<"r","u","n","n","i","n","g">>
success_lc == <<"s","u","c","c","e","s","s">>
manually_cancelled_lc ==
    <<"m","a","n","u","a","l","l","y","_","c","a","n","c","e","l","l","e","d">>
RUNNING_UC == <<"R","U","N","N","I","N","G">>
SUCCESS_UC == <<"S","U","C","C","E","S","S">>

\* job states the control plane reports
S_RUNNING   == <<"R","U","N","N","I","N","G">>
S_x_running == <<"X","_","r","u","n","n","i","n","g">>
S_SUCCESS   == <<"S","U","C","C","E","S","S">>
S_x_Success == <<"x","_","S","u","c","c","e","s","s">>
S_MANUALLY_CANCELLED ==
    <<"M","A","N","U","A","L","L","Y","_","C","A","N","C","E","L","L","E","D">>
S_x_manually_cancelled ==
    <<"x","_","m","a","n","u","a","l","l","y","_","c","a","n","c","e","l","l","e","d">>
S_ERROR     == <<"E","R","R","O","R">>

States == { S_RUNNING, S_x_running, S_SUCCESS, S_x_Success,
            S_MANUALLY_CANCELLED, S_x_manually_cancelled, S_ERROR }

\* the control plane's own notion of an active job
RemoteActive(s) == s \in {S_RUNNING, S_x_running}
NewJobStates == {s \in States : RemoteActive(s)}
TerminalStates == {s \in States : ~RemoteActive(s)}

(* ------------------------------------------------------------------ *)
(* The conditions execute() branches on                                 *)
(* ------------------------------------------------------------------ *)
\* line 93: job["state"].lower().endswith("running")
ExistingIsRunning(s) == endswith(lower(s), running_lc)

\* a comparison that forgets .lower()
ExistingIsSuccess_CaseSensitive(s) == endswith(s, SUCCESS_UC)

\* line 111: job["state"].lower().endswith("success")
ExistingIsSuccess(s) == endswith(lower(s), success_lc)

\* lines 101-107: ...["job"]["state"].lower().endswith("manually_cancelled")
CancelObserved(s) == endswith(lower(s), manually_cancelled_lc)

\* a comparison that forgets .upper()
PollIsRunning_CaseSensitive(s) == endswith(s, RUNNING_UC)

\* line 137: job_result["state"].upper().endswith("RUNNING")
PollIsRunning(s) == endswith(upper(s), RUNNING_UC)

\* line 150: job_result["state"].upper().endswith("SUCCESS")
PollIsSuccess(s) == endswith(upper(s), SUCCESS_UC)

(* ------------------------------------------------------------------ *)
(* State                                                                *)
(* ------------------------------------------------------------------ *)
VARIABLES
    allow_overwrite,  \* self.allow_overwrite
    df_generator,     \* self.df_generator is set
    jobs,             \* control plane: job id -> [state, by]
    cancelReq,        \* control plane: ids a cancel was requested for
    pc,               \* position of each execute()
    job,              \* execute's local `job` (the find result)
    resp,             \* execute's local `resp` (job id of the submission response)
    df_info,          \* ingest path's df_path and upload_url
    job_id,           \* self.job_id (0 is None)
    job_result,       \* execute's local `job_result`
    outcome,          \* how execute() ended
    kpc,              \* position of each on_kill()
    log,              \* the calls each execute() made, in order
    klog              \* the calls each on_kill() made, in order

vars == <<allow_overwrite, df_generator, jobs, cancelReq, pc, job, resp, df_info,
          job_id, job_result, outcome, kpc, log, klog>>

\* a job record: id, state, and the "attempts" list when the key is there
NoJob == [id |-> 0, state |-> <<>>, has_attempts |-> FALSE, attempts |-> <<>>]
\* the attempts lists a record may carry: empty, or with one attempt
AttemptLists == { <<>>, <<[state |-> "RUNNING", run_url |-> "url"]>> }
NoInfo == [df_path |-> 0, signed_url_for_df_upload |-> 0]
NoOutcome == [kind |-> "none", state |-> <<>>, record |-> NoJob]

\* line 110, line 146: time.sleep(60)
SleepSeconds == 60

\* staging coordinates the control plane hands out
StagingTargets == { [df_path |-> 1, signed_url_for_df_upload |-> 11],
                    [df_path |-> 2, signed_url_for_df_upload |-> 12] }

\* one call: who made it, what was called, its argument, what it returned
\* (err: the exception the call raised, "" when it returned)
Event(by, op, arg, ret, url, st, ok) ==
    [by |-> by, op |-> op, arg |-> arg, ret |-> ret, url |-> url, st |-> st, ok |-> ok,
     err |-> IF ok THEN "" ELSE "TransportError"]

Call(op, arg)      == Event("execute", op, arg, 0, 0, <<>>, TRUE)
Failed(by, op, arg) == Event(by, op, arg, 0, 0, <<>>, FALSE)
\* a call that raised the exception e
FailedWith(e, by, op, arg) == [Failed(by, op, arg) EXCEPT !.err = e]

Sleeps(i) == Cardinality({k \in 1..Len(log[i]) : log[i][k].op = "sleep"})

\* errors get_materialization_job can raise (the other calls: TransportError)
GetErrors == {"TransportError", "NotFound"}

Logged(i, events) == log' = [log EXCEPT ![i] = @ \o events]
KLogged(i, events) == klog' = [klog EXCEPT ![i] = @ \o events]

\* an end of execute() that wraps a NotFound into the generic transport error
Finish_Masked(i, kind, state, record) ==
    /\ pc' = [pc EXCEPT ![i] = "done"]
    /\ outcome' = [outcome EXCEPT ![i] =
                      [kind |-> IF kind = "NotFound" THEN "TransportError" ELSE kind,
                       state |-> state, record |-> record]]
    /\ job' = [job EXCEPT ![i] = NoJob]
    /\ resp' = [resp EXCEPT ![i] = 0]
    /\ df_info' = [df_info EXCEPT ![i] = NoInfo]
    /\ job_result' = [job_result EXCEPT ![i] = NoJob]

\* execute() ends, by a return (Skipped, Completed) or by a raised exception:
\* its frame, with the locals job, resp, df_info and job_result, is gone
Finish(i, kind, state, record) ==
    /\ pc' = [pc EXCEPT ![i] = "done"]
    /\ outcome' = [outcome EXCEPT ![i] = [kind |-> kind, state |-> state, record |-> record]]
    /\ job' = [job EXCEPT ![i] = NoJob]
    /\ resp' = [resp EXCEPT ![i] = 0]
    /\ df_info' = [df_info EXCEPT ![i] = NoInfo]
    /\ job_result' = [job_result EXCEPT ![i] = NoJob]

\* execute() goes on at `label`
Goto(i, label) ==
    /\ pc' = [pc EXCEPT ![i] = label]
    /\ UNCHANGED outcome

(* ------------------------------------------------------------------ *)
(* The control plane (behind TectonHook)                               *)
(* ------------------------------------------------------------------ *)
\* find_materialization_job: the latest job with the same parameters, or None
LatestJob ==
    IF Len(jobs) = 0 THEN NoJob
    ELSE [id |-> Len(jobs), state |-> jobs[Len(jobs)].state,
          has_attempts |-> FALSE, attempts |-> <<>>]

\* the id the control plane gives the next job it creates: one no job has yet
NewJobId == Len(jobs) + 1

\* the records get_materialization_job may return for job j: its current
\* state, without the "attempts" key or with one of the attempts lists
JobRecords(j) ==
    { [id |-> j, state |-> jobs[j].state, has_attempts |-> FALSE, attempts |-> <<>>] } \cup
    { [id |-> j, state |-> jobs[j].state, has_attempts |-> TRUE, attempts |-> a] :
        a \in AttemptLists }

\* a running job ends on the control plane's side
RemoteStep(j) ==
    /\ j \in 1..Len(jobs)
    /\ RemoteActive(jobs[j].state)
    /\ \E s \in TerminalStates : jobs' = [jobs EXCEPT ![j].state = s]
    /\ UNCHANGED <<allow_overwrite, df_generator, cancelReq, pc, job, resp, df_info,
                   job_id, job_result, outcome, kpc, log, klog>>

(* ------------------------------------------------------------------ *)
(* execute()                                                            *)
(* ------------------------------------------------------------------ *)
\* lines 120-122: which submission the invocation makes
SubmissionPc(gen) == IF gen THEN "stage" ELSE "submit"

\* a branch that cancels every job found that did not succeed
AfterFind_CancelUnlessSuccess(j, overwrite, gen) ==
    IF j.id # 0
    THEN IF ExistingIsSuccess(j.state)
         THEN IF overwrite THEN SubmissionPc(gen) ELSE "return"
         ELSE "cancel"
    ELSE SubmissionPc(gen)

\* a branch on the found job without the return of line 118
AfterFind_NoSkip(j, overwrite, gen) ==
    IF j.id # 0 /\ ExistingIsRunning(j.state) THEN "cancel" ELSE SubmissionPc(gen)

\* lines 91-118: where execute goes with the job find returned
AfterFind(j, overwrite, gen) ==
    IF j.id # 0
    THEN IF ExistingIsRunning(j.state) THEN "cancel"
         ELSE IF ExistingIsSuccess(j.state)
              THEN IF overwrite THEN SubmissionPc(gen) ELSE "return"
              ELSE SubmissionPc(gen)
    ELSE SubmissionPc(gen)

\* lines 80-118: create the hook, find the existing job, branch on its state
Find(i) ==
    /\ pc[i] = "find"
    /\ \/ /\ Logged(i, <<Failed("execute", "create", 0)>>)
          /\ Finish(i, "TransportError", <<>>, NoJob)
       \/ /\ Logged(i, <<Call("create", 0), Failed("execute", "find_materialization_job", 0)>>)
          /\ Finish(i, "TransportError", <<>>, NoJob)
       \/ /\ Logged(i, <<Call("create", 0),
                        Event("execute", "find_materialization_job", 0, LatestJob.id, 0,
                              LatestJob.state, TRUE)>>)
          /\ IF AfterFind(LatestJob, allow_overwrite, df_generator) = "return"
             THEN Finish(i, "Skipped", <<>>, NoJob)
             ELSE /\ Goto(i, AfterFind(LatestJob, allow_overwrite, df_generator))
                  /\ job' = [job EXCEPT ![i] = LatestJob]
                  /\ UNCHANGED <<resp, df_info, job_result>>
    /\ UNCHANGED <<allow_overwrite, df_generator, jobs, cancelReq, job_id, kpc, klog>>

\* lines 95-99: cancel the running job that was found
Cancel(i) ==
    /\ pc[i] = "cancel"
    /\ \/ /\ Logged(i, <<Failed("execute", "cancel_materialization_job", job[i].id)>>)
          /\ Finish(i, "TransportError", <<>>, NoJob)
          /\ UNCHANGED cancelReq
       \/ /\ Logged(i, <<Call("cancel_materialization_job", job[i].id)>>)
          /\ cancelReq' = cancelReq \cup {job[i].id}
          /\ Goto(i, "wait_get")
          /\ UNCHANGED <<job, resp, df_info, job_result>>
    /\ UNCHANGED <<allow_overwrite, df_generator, jobs, job_id, kpc, klog>>

\* a wait that is over as soon as the job no longer runs
AfterWaitGet_AnyTerminal(s, gen) ==
    IF ExistingIsRunning(s) THEN "wait_sleep" ELSE SubmissionPc(gen)

\* lines 100-108: the loop condition of the wait for the cancellation
AfterWaitGet(s, gen) == IF CancelObserved(s) THEN SubmissionPc(gen) ELSE "wait_sleep"

\* lines 100-108: fetch the cancelled job, leave the loop once it is cancelled
WaitGet(i) ==
    /\ pc[i] = "wait_get"
    /\ \/ \E e \in GetErrors :
            /\ Logged(i, <<FailedWith(e, "execute", "get_materialization_job", job[i].id)>>)
            /\ Finish(i, e, <<>>, NoJob)
       \/ /\ Logged(i, <<Event("execute", "get_materialization_job", job[i].id, job[i].id, 0,
                              jobs[job[i].id].state, TRUE)>>)
          /\ Goto(i, AfterWaitGet(jobs[job[i].id].state, df_generator))
          /\ UNCHANGED <<job, resp, df_info, job_result>>
    /\ UNCHANGED <<allow_overwrite, df_generator, jobs, cancelReq, job_id, kpc, klog>>

\* lines 109-110: time.sleep(60) in the wait for the cancellation
WaitSleep(i) ==
    /\ pc[i] = "wait_sleep"
    /\ Sleeps(i) < MaxSleeps
    /\ Logged(i, <<Call("sleep", SleepSeconds)>>)
    /\ Goto(i, "wait_get")
    /\ UNCHANGED <<allow_overwrite, df_generator, jobs, cancelReq, job, resp, df_info,
                   job_id, job_result, kpc, klog>>

\* lines 123-132: submit_materialization_job creates a job on the control plane
Submit(i) ==
    /\ pc[i] = "submit"
    /\ \/ /\ Logged(i, <<Failed("execute", "submit_materialization_job", 0)>>)
          /\ Finish(i, "TransportError", <<>>, NoJob)
          /\ UNCHANGED jobs
       \/ \E s \in NewJobStates :
            /\ jobs' = Append(jobs, [state |-> s, by |-> i])
            /\ resp' = [resp EXCEPT ![i] = NewJobId]
            /\ Logged(i, <<Event("execute", "submit_materialization_job", 0, NewJobId,
                                 0, <<>>, TRUE)>>)
            /\ Goto(i, "record")
            /\ UNCHANGED <<job, df_info, job_result>>
    /\ UNCHANGED <<allow_overwrite, df_generator, cancelReq, job_id, kpc, klog>>

(* ------------------------------------------------------------------ *)
(* ingest_feature_table_with_pandas_df()                                *)
(* ------------------------------------------------------------------ *)
\* line 158: get_dataframe_info hands out a destination and a signed url
Stage(i) ==
    /\ pc[i] = "stage"
    /\ \/ /\ Logged(i, <<Failed("execute", "get_dataframe_info", 0)>>)
          /\ Finish(i, "TransportError", <<>>, NoJob)
       \/ \E t \in StagingTargets :
            /\ df_info' = [df_info EXCEPT ![i] = t]
            /\ Logged(i, <<Event("execute", "get_dataframe_info", 0, t.df_path,
                                 t.signed_url_for_df_upload, <<>>, TRUE)>>)
            /\ Goto(i, "produce")
            /\ UNCHANGED <<job, resp, job_result>>
    /\ UNCHANGED <<allow_overwrite, df_generator, jobs, cancelReq, job_id, kpc, klog>>

\* line 163: df = self.df_generator()
Produce(i) ==
    /\ pc[i] = "produce"
    /\ \/ /\ Logged(i, <<FailedWith("ProducerError", "execute", "df_generator", 0)>>)
          /\ Finish(i, "ProducerError", <<>>, NoJob)
       \/ /\ Logged(i, <<Call("df_generator", 0)>>)
          /\ Goto(i, "upload")
          /\ UNCHANGED <<job, resp, df_info, job_result>>
    /\ UNCHANGED <<allow_overwrite, df_generator, jobs, cancelReq, job_id, kpc, klog>>

\* the destination path, taken for the url to upload to
UploadTarget_DfPath(info) == info.df_path

\* lines 161, 164: the url the dataframe is uploaded to
UploadTarget(info) == info.signed_url_for_df_upload

\* an upload whose failure is caught and ignored
Upload_IgnoreFailure(i) ==
    /\ pc[i] = "upload"
    /\ \/ Logged(i, <<Failed("execute", "upload_df_pandas", UploadTarget(df_info[i]))>>)
       \/ Logged(i, <<Call("upload_df_pandas", UploadTarget(df_info[i]))>>)
    /\ Goto(i, "ingest")
    /\ UNCHANGED <<job, resp, df_info, job_result>>
    /\ UNCHANGED <<allow_overwrite, df_generator, jobs, cancelReq, job_id, kpc, klog>>

\* line 164: upload_df_pandas(upload_url, df)
Upload(i) ==
    /\ pc[i] = "upload"
    /\ \/ /\ Logged(i, <<Failed("execute", "upload_df_pandas", UploadTarget(df_info[i]))>>)
          /\ Finish(i, "TransportError", <<>>, NoJob)
       \/ /\ Logged(i, <<Call("upload_df_pandas", UploadTarget(df_info[i]))>>)
          /\ Goto(i, "ingest")
          /\ UNCHANGED <<job, resp, df_info, job_result>>
    /\ UNCHANGED <<allow_overwrite, df_generator, jobs, cancelReq, job_id, kpc, klog>>

\* lines 160, 166: the df_path handed to ingest_dataframe
IngestPath(info) == info.df_path

\* an ingest path that falls through to the batch submission (an `if` without
\* its `else` at lines 120-122)
Ingest_FallThrough(i) ==
    /\ pc[i] = "ingest"
    /\ \/ /\ Logged(i, <<Failed("execute", "ingest_dataframe", IngestPath(df_info[i]))>>)
          /\ Finish(i, "TransportError", <<>>, NoJob)
          /\ UNCHANGED jobs
       \/ \E s \in NewJobStates :
            /\ jobs' = Append(jobs, [state |-> s, by |-> i])
            /\ resp' = [resp EXCEPT ![i] = NewJobId]
            /\ Logged(i, <<Event("execute", "ingest_dataframe", IngestPath(df_info[i]),
                                 NewJobId, 0, <<>>, TRUE)>>)
            /\ Goto(i, "submit")
            /\ UNCHANGED <<job, df_info, job_result>>
    /\ UNCHANGED <<allow_overwrite, df_generator, cancelReq, job_id, kpc, klog>>

\* line 166: ingest_dataframe creates the ingest job on the control plane
Ingest(i) ==
    /\ pc[i] = "ingest"
    /\ \/ /\ Logged(i, <<Failed("execute", "ingest_dataframe", IngestPath(df_info[i]))>>)
          /\ Finish(i, "TransportError", <<>>, NoJob)
          /\ UNCHANGED jobs
       \/ \E s \in NewJobStates :
            /\ jobs' = Append(jobs, [state |-> s, by |-> i])
            /\ resp' = [resp EXCEPT ![i] = NewJobId]
            /\ Logged(i, <<Event("execute", "ingest_dataframe", IngestPath(df_info[i]),
                                 NewJobId, 0, <<>>, TRUE)>>)
            /\ Goto(i, "record")
            /\ UNCHANGED <<job, df_info, job_result>>
    /\ UNCHANGED <<allow_overwrite, df_generator, cancelReq, job_id, kpc, klog>>

(* ------------------------------------------------------------------ *)
(* execute(), after the submission                                      *)
(* ------------------------------------------------------------------ *)
\* the id of the job that was found, recorded in place of the new job's
RecordedId_Found(response, found) == IF found # 0 THEN found ELSE response

\* line 133: the id execute records, of the submission's response and the
\* job it found
RecordedId(response, found) == response

\* line 133: self.job_id = resp["job"]["id"]
Record(i) ==
    /\ pc[i] = "record"
    /\ job_id' = [job_id EXCEPT ![i] = RecordedId(resp[i], job[i].id)]
    /\ Goto(i, "poll_get")
    /\ UNCHANGED <<allow_overwrite, df_generator, jobs, cancelReq, job, resp, df_info,
                   job_result, kpc, log, klog>>

\* a poll that takes every state that no longer runs for a success
PollDecision_NoRaise(r) ==
    IF PollIsRunning(r.state)
    THEN IF r.has_attempts /\ Len(r.attempts) = 0 THEN "IndexError" ELSE "poll_sleep"
    ELSE "Completed"

\* lines 137-155: what execute does with a fetched record of its job
PollDecision(r) ==
    IF PollIsRunning(r.state)
    THEN IF r.has_attempts /\ Len(r.attempts) = 0 THEN "IndexError" ELSE "poll_sleep"
    ELSE IF PollIsSuccess(r.state) THEN "Completed" ELSE "JobFailed"

\* lines 134-136, 147-155: fetch the job; log the latest attempt while it runs
\* (attempts[-1] of an empty list raises IndexError); return or raise at the end
PollGet(i) ==
    /\ pc[i] = "poll_get"
    /\ \/ \E e \in GetErrors :
            /\ Logged(i, <<FailedWith(e, "execute", "get_materialization_job", job_id[i])>>)
            /\ Finish(i, e, <<>>, NoJob)
       \/ \E r \in JobRecords(job_id[i]) :
            /\ Logged(i, <<Event("execute", "get_materialization_job", job_id[i], r.id, 0,
                                 r.state, TRUE)>>)
            /\ CASE PollDecision(r) = "poll_sleep" ->
                      /\ Goto(i, "poll_sleep")
                      /\ job_result' = [job_result EXCEPT ![i] = r]
                      /\ UNCHANGED <<job, resp, df_info>>
                 [] PollDecision(r) = "IndexError" -> Finish(i, "IndexError", <<>>, NoJob)
                 [] PollDecision(r) = "Completed"  -> Finish(i, "Completed", <<>>, NoJob)
                 [] OTHER -> Finish(i, "JobFailed", r.state, r)
    /\ UNCHANGED <<allow_overwrite, df_generator, jobs, cancelReq, job_id, kpc, klog>>

\* line 146: time.sleep(60) in the poll loop
PollSleep(i) ==
    /\ pc[i] = "poll_sleep"
    /\ Sleeps(i) < MaxSleeps
    /\ Logged(i, <<Call("sleep", SleepSeconds)>>)
    /\ Goto(i, "poll_get")
    /\ UNCHANGED <<allow_overwrite, df_generator, jobs, cancelReq, job, resp, df_info,
                   job_id, job_result, kpc, klog>>

(* ------------------------------------------------------------------ *)
(* on_kill()                                                            *)
(* ------------------------------------------------------------------ *)
\* an on_kill that does not look at self.job_id
OnKillBranch_Always(id) == "cancel"

\* line 169: if self.job_id
OnKillBranch(id) == IF id # 0 THEN "cancel" ELSE "returned"

\* lines 169-170, 176-177: the host stops the task; branch on self.job_id
OnKill(i) ==
    /\ pc[i] # "off"
    /\ kpc[i] = "idle"
    /\ kpc' = [kpc EXCEPT ![i] = OnKillBranch(job_id[i])]
    /\ IF OnKillBranch(job_id[i]) = "cancel"
       THEN UNCHANGED klog
       ELSE KLogged(i, <<Event("on_kill", "none_to_kill", 0, 0, 0, <<>>, TRUE)>>)
    /\ UNCHANGED <<allow_overwrite, df_generator, jobs, cancelReq, pc, job, resp, df_info,
                   job_id, job_result, outcome, log>>

\* lines 171-175: create a hook and cancel self.job_id; nothing catches a failure
OnKillCancel(i) ==
    /\ kpc[i] = "cancel"
    /\ \/ /\ KLogged(i, <<Failed("on_kill", "create", 0)>>)
          /\ kpc' = [kpc EXCEPT ![i] = "raised"]
          /\ UNCHANGED cancelReq
       \/ /\ KLogged(i, <<Event("on_kill", "create", 0, 0, 0, <<>>, TRUE),
                        Failed("on_kill", "cancel_materialization_job", job_id[i])>>)
          /\ kpc' = [kpc EXCEPT ![i] = "raised"]
          /\ UNCHANGED cancelReq
       \/ /\ KLogged(i, <<Event("on_kill", "create", 0, 0, 0, <<>>, TRUE),
                        Event("on_kill", "cancel_materialization_job", job_id[i], 0, 0,
                              <<>>, TRUE)>>)
          /\ cancelReq' = cancelReq \cup {job_id[i]}
          /\ kpc' = [kpc EXCEPT ![i] = "returned"]
    /\ UNCHANGED <<allow_overwrite, df_generator, jobs, pc, job, resp, df_info,
                   job_id, job_result, outcome, log>>

(* ------------------------------------------------------------------ *)
(* Specifications                                                       *)
(* ------------------------------------------------------------------ *)
\* lines 41-77: the operator as constructed (job_id None), over every control
\* plane with no job or one earlier job of the same parameters, in any state
InitWith(started) ==
    /\ allow_overwrite \in BOOLEAN
    /\ df_generator \in BOOLEAN
    /\ jobs \in {<<>>} \cup {<<[state |-> s, by |-> 0]>> : s \in States}
    /\ cancelReq = {}
    /\ pc = [i \in Invocations |-> IF i \in started THEN "find" ELSE "off"]
    /\ job = [i \in Invocations |-> NoJob]
    /\ resp = [i \in Invocations |-> 0]
    /\ df_info = [i \in Invocations |-> NoInfo]
    /\ job_id = [i \in Invocations |-> 0]
    /\ job_result = [i \in Invocations |-> NoJob]
    /\ outcome = [i \in Invocations |-> NoOutcome]
    /\ kpc = [i \in Invocations |-> "idle"]
    /\ log = [i \in Invocations |-> <<>>]
    /\ klog = [i \in Invocations |-> <<>>]

\* one invocation of execute(), with its on_kill()
Init == InitWith({1})

\* two invocations of a batch operator at once, on a control plane that has no
\* job with these parameters yet
InitMulti ==
    /\ InitWith(Invocations)
    /\ ~df_generator
    /\ jobs = <<>>

Next ==
    \/ \E i \in Invocations :
         \/ Find(i) \/ Cancel(i) \/ WaitGet(i) \/ WaitSleep(i)
         \/ Submit(i) \/ Stage(i) \/ Produce(i) \/ Upload(i) \/ Ingest(i)
         \/ Record(i) \/ PollGet(i) \/ PollSleep(i)
         \/ OnKill(i) \/ OnKillCancel(i)
    \/ \E j \in 1..Len(jobs) : RemoteStep(j)

Spec == Init /\ [][Next]_vars

\* the execute() steps of the batch path, and the control plane
NextMulti ==
    \/ \E i \in Invocations :
         \/ Find(i) \/ Cancel(i) \/ WaitGet(i) \/ WaitSleep(i)
         \/ Submit(i) \/ Record(i) \/ PollGet(i) \/ PollSleep(i)
    \/ \E j \in 1..Len(jobs) : RemoteStep(j)

SpecMulti == InitMulti /\ [][NextMulti]_vars

\* `word` with the letters at the positions `up` in upper case
Cased(word, up) ==
    [k \in 1..Len(word) |-> IF k \in up THEN UpperChar[word[k]] ELSE word[k]]

\* casings of a word of n letters: all lower, all upper, every other letter
\* upper, the first or the last letter upper, the first or the last letter lower
Casings(n) ==
    {{}, 1..n, {k \in 1..n : k % 2 = 1}, {1}, {n}, 2..n, 1..(n - 1)}

error_lc == <<"e","r","r","o","r">>
cancelled_lc == <<"c","a","n","c","e","l","l","e","d">>

\* state strings to classify: the words execute looks for and two it does not,
\* in these casings, alone, behind a prefix, and before a trailing character
ClassifyInputs ==
    UNION { { prefix \o Cased(word, up) \o suffix :
                prefix \in {<<>>, <<"x", "_">>},
                suffix \in {<<>>, <<"_">>},
                up \in Casings(Len(word)) } :
            word \in {running_lc, success_lc, manually_cancelled_lc, error_lc,
                      cancelled_lc} }

\* lines 41-77: a batch operator as constructed, on a control plane whose
\* latest job of these parameters is in one of the states to classify
InitClassify ==
    /\ allow_overwrite \in BOOLEAN
    /\ df_generator = FALSE
    /\ jobs \in {<<[state |-> s, by |-> 0]>> : s \in ClassifyInputs}
    /\ cancelReq = {}
    /\ pc = [i \in Invocations |-> IF i = 1 THEN "find" ELSE "off"]
    /\ job = [i \in Invocations |-> NoJob]
    /\ resp = [i \in Invocations |-> 0]
    /\ df_info = [i \in Invocations |-> NoInfo]
    /\ job_id = [i \in Invocations |-> 0]
    /\ job_result = [i \in Invocations |-> NoJob]
    /\ outcome = [i \in Invocations |-> NoOutcome]
    /\ kpc = [i \in Invocations |-> "idle"]
    /\ log = [i \in Invocations |-> <<>>]
    /\ klog = [i \in Invocations |-> <<>>]

\* execute() of the batch path on such a control plane
NextClassify ==
    \/ \E i \in {1} :
         \/ Find(i) \/ Cancel(i) \/ WaitGet(i) \/ WaitSleep(i)
         \/ Submit(i) \/ Record(i) \/ PollGet(i) \/ PollSleep(i)
    \/ \E j \in 1..Len(jobs) : RemoteStep(j)

SpecClassify == InitClassify /\ [][NextClassify]_vars

\* the host's stop signal arrives while execute waits for the cancellation of
\* the job it found (lines 100-110)
OnKillInWait(i) ==
    /\ pc[i] \in {"wait_get", "wait_sleep"}
    /\ OnKill(i)

\* one invocation on a control plane whose latest job is running
InitStop ==
    /\ Init
    /\ Len(jobs) = 1
    /\ RemoteActive(jobs[1].state)

\* execute(), stopped by the host only inside the wait for the cancellation
NextStop ==
    \/ \E i \in {1} :
         \/ Find(i) \/ Cancel(i) \/ WaitGet(i) \/ WaitSleep(i)
         \/ Submit(i) \/ Stage(i) \/ Produce(i) \/ Upload(i) \/ Ingest(i)
         \/ Record(i) \/ PollGet(i) \/ PollSleep(i)
         \/ OnKillInWait(i)
    \/ \E j \in 1..Len(jobs) : RemoteStep(j)

SpecStop == InitStop /\ [][NextStop]_vars

\* line 79: the host invokes execute() again, with the same parameters, after
\* the invocation before it returned from line 151 (Completed)
Start(i) ==
    /\ pc[i] = "off"
    /\ \A h \in Invocations : h < i => (pc[h] = "done" /\ outcome[h].kind = "Completed")
    /\ pc' = [pc EXCEPT ![i] = "find"]
    /\ UNCHANGED <<allow_overwrite, df_generator, jobs, cancelReq, job, resp, df_info,
                   job_id, job_result, outcome, kpc, log, klog>>

\* invocations of execute() one after the other
NextSeq ==
    \/ \E i \in Invocations :
         \/ Start(i)
         \/ Find(i) \/ Cancel(i) \/ WaitGet(i) \/ WaitSleep(i)
         \/ Submit(i) \/ Stage(i) \/ Produce(i) \/ Upload(i) \/ Ingest(i)
         \/ Record(i) \/ PollGet(i) \/ PollSleep(i)
    \/ \E j \in 1..Len(jobs) : RemoteStep(j)

SpecSeq == Init /\ [][NextSeq]_vars

(* ------------------------------------------------------------------ *)
(* Reading the logs                                                     *)
(* ------------------------------------------------------------------ *)
\* the positions of execute's log where one of `ops` was called
At(i, ops) == {k \in 1..Len(log[i]) : log[i][k].op \in ops}
\* the positions of on_kill's log where one of `ops` was called
KAt(i, ops) == {k \in 1..Len(klog[i]) : klog[i][k].op \in ops}

CreateOps == {"submit_materialization_job", "ingest_dataframe"}
SubmissionOps == CreateOps \cup {"get_dataframe_info"}
IngestOps == {"get_dataframe_info", "df_generator", "upload_df_pandas", "ingest_dataframe"}

\* find_materialization_job returned, and returned a job
Found(i) ==
    \E k \in At(i, {"find_materialization_job"}) : log[i][k].ok /\ log[i][k].ret # 0
FoundId(i) == log[i][CHOOSE k \in At(i, {"find_materialization_job"}) : TRUE].ret
FoundState(i) == log[i][CHOOSE k \in At(i, {"find_materialization_job"}) : TRUE].st

\* the state ends in `word`, whatever the case of its letters
EndsIn(s, word) ==
    /\ Len(s) >= Len(word)
    /\ \A k \in 1..Len(word) :
         LET c == s[Len(s) - Len(word) + k] IN
           \/ c = word[k]
           \/ \E n \in 1..26 : {c, word[k]} = {UpperChars[n], LowerChars[n]}

(* ------------------------------------------------------------------ *)
(* C1 - C10                                                             *)
(* ------------------------------------------------------------------ *)
\* C1 (skip idempotence): when find returned a job whose state ends in SUCCESS,
\* in whatever case, and allow_overwrite is false, execute has returned at
\* line 118 (Skipped), the invocation has called no submit, get_dataframe_info,
\* df_generator, upload, ingest or cancel, and job_id is still None
C1_SkipIdempotence ==
    \A i \in Invocations :
        (Found(i) /\ EndsIn(FoundState(i), S_SUCCESS) /\ ~allow_overwrite) =>
            /\ pc[i] = "done"
            /\ outcome[i].kind = "Skipped"
            /\ At(i, CreateOps \cup IngestOps \cup {"cancel_materialization_job"}) = {}
            /\ KAt(i, {"cancel_materialization_job"}) = {}
            /\ job_id[i] = 0

\* C1's case: a job in state x_Success was found, execute skipped, on_kill ran
C1_Witness ==
    /\ Found(1) /\ FoundState(1) = S_x_Success /\ ~allow_overwrite
    /\ outcome[1].kind = "Skipped"
    /\ kpc[1] = "returned"

\* C2 as stated: when the job found is running (its state ends in RUNNING),
\* execute calls cancel exactly once, for that job, and no submission call
\* (submit, get_dataframe_info, ingest) comes before a fetch of that job that
\* returned the state MANUALLY_CANCELLED itself
CancelFirst(i, cancelled(_)) ==
    (Found(i) /\ EndsIn(FoundState(i), S_RUNNING)) =>
        /\ Cardinality(At(i, {"cancel_materialization_job"})) <= 1
        /\ \A k \in At(i, {"cancel_materialization_job"}) :
               k = 3 /\ log[i][k].arg = FoundId(i)
        /\ Len(log[i]) >= 3 => At(i, {"cancel_materialization_job"}) # {}
        /\ pc[i] = "done" => At(i, {"cancel_materialization_job"}) # {}
        /\ \A k \in At(i, SubmissionOps) :
               \E g \in At(i, {"get_materialization_job"}) :
                   /\ g < k
                   /\ log[i][g].ok
                   /\ log[i][g].arg = FoundId(i)
                   /\ cancelled(log[i][g].st)

IsManuallyCancelled(s) == s = S_MANUALLY_CANCELLED
C2_Original == \A i \in Invocations : CancelFirst(i, IsManuallyCancelled)

\* C2 as amended: the same, with the fetch that ends the wait returning a
\* state that ends in MANUALLY_CANCELLED, in whatever case
EndsInManuallyCancelled(s) == EndsIn(s, S_MANUALLY_CANCELLED)
C2_CancelBeforeSubmit == \A i \in Invocations : CancelFirst(i, EndsInManuallyCancelled)

\* C2's case: a running job was found and cancelled, the wait slept, a fetch
\* returned x_manually_cancelled, and the submission followed
C2_Witness ==
    /\ Found(1) /\ FoundState(1) = S_x_running
    /\ \E g \in At(1, {"get_materialization_job"}) :
          log[1][g].st = S_x_manually_cancelled /\ log[1][g].arg = FoundId(1)
    /\ At(1, {"sleep"}) # {}
    /\ At(1, CreateOps) # {}

\* C3 (single active job): at most one of the jobs the invocations created is
\* running at any time
C3_SingleActiveJob ==
    Cardinality({j \in 1..Len(jobs) : jobs[j].by # 0 /\ RemoteActive(jobs[j].state)}) <= 1

\* the fetches of the job execute submitted
Polls(i) ==
    {k \in At(i, {"get_materialization_job"}) :
        log[i][k].ok /\ job_id[i] # 0 /\ log[i][k].arg = job_id[i]}

\* C4 (overwrite forces resubmission): when find returned a job whose state
\* ends in SUCCESS and allow_overwrite is true, execute calls no cancel, makes
\* at most one submission call (ingest_dataframe with a df_generator,
\* submit_materialization_job without), exactly one once it has ended without
\* a failure of the staging steps before it, and the job id it records and
\* polls is the one that call returned, which is not the id of the job found
C4_OverwriteResubmits ==
    \A i \in Invocations :
        (Found(i) /\ EndsIn(FoundState(i), S_SUCCESS) /\ allow_overwrite) =>
            /\ At(i, {"cancel_materialization_job"}) = {}
            /\ Cardinality(At(i, CreateOps)) <= 1
            /\ At(i, CreateOps) \subseteq
                 At(i, {IF df_generator THEN "ingest_dataframe"
                                        ELSE "submit_materialization_job"})
            /\ ( /\ pc[i] = "done"
                 /\ \A k \in At(i, IngestOps \ CreateOps) : log[i][k].ok )
               => Cardinality(At(i, CreateOps)) = 1
            /\ job_id[i] # 0 =>
                 /\ \E k \in At(i, CreateOps) : log[i][k].ok /\ log[i][k].ret = job_id[i]
                 /\ job_id[i] # FoundId(i)
            /\ \A k \in At(i, {"get_materialization_job"}) :
                 job_id[i] # 0 /\ log[i][k].arg = job_id[i]

\* C4's case: a successful job was found, allow_overwrite is set, a new job
\* was ingested, recorded and polled to the end
C4_Witness ==
    /\ Found(1) /\ FoundState(1) = S_SUCCESS /\ allow_overwrite /\ df_generator
    /\ job_id[1] = 2
    /\ Polls(1) # {}
    /\ outcome[1].kind = "Completed"

\* C5 (failure propagation): execute raises the job failure exactly when the
\* last fetch of its job returned a state that ends neither in RUNNING nor in
\* SUCCESS; the exception carries that state and the record of that job; and
\* execute returns Completed only when the last fetch returned a state that
\* ends in SUCCESS
C5_FailurePropagation ==
    \A i \in Invocations :
        LET n == Len(log[i])
            lastPoll == n \in Polls(i)
            st == log[i][n].st
        IN  /\ outcome[i].kind = "JobFailed" =>
                 /\ lastPoll
                 /\ ~EndsIn(st, S_RUNNING) /\ ~EndsIn(st, S_SUCCESS)
            /\ (pc[i] = "done" /\ lastPoll /\ ~EndsIn(st, S_RUNNING) /\ ~EndsIn(st, S_SUCCESS)) =>
                 /\ outcome[i].kind = "JobFailed"
                 /\ outcome[i].state = st
                 /\ outcome[i].record.state = st
                 /\ outcome[i].record.id = job_id[i]
            /\ outcome[i].kind = "Completed" => (lastPoll /\ EndsIn(st, S_SUCCESS))

\* C5's case: the job was polled while it ran, then fetched as
\* x_manually_cancelled, and execute raised with that state
C5_Witness ==
    /\ outcome[1].kind = "JobFailed"
    /\ outcome[1].state = S_x_manually_cancelled
    /\ At(1, {"sleep"}) # {}

\* C6 (poll-to-terminal convergence): when no job was cancelled first and the
\* client answered every fetch of the submitted job, with RUNNING states N
\* times and a SUCCESS state after them, execute has returned Completed after
\* N+1 fetches and N sleeps, each sleep between two fetches
C6_PollConvergence ==
    \A i \in Invocations :
        LET running == {k \in Polls(i) : EndsIn(log[i][k].st, S_RUNNING)}
            sleeps == At(i, {"sleep"})
        IN  ( /\ pc[i] = "done"
              /\ Polls(i) # {}
              /\ At(i, {"cancel_materialization_job"}) = {}
              /\ \A k \in At(i, {"get_materialization_job"}) : log[i][k].ok
              /\ \A k \in Polls(i) :
                    EndsIn(log[i][k].st, S_RUNNING) \/ EndsIn(log[i][k].st, S_SUCCESS) )
            => /\ outcome[i].kind = "Completed"
               /\ Cardinality(Polls(i)) = Cardinality(running) + 1
               /\ Cardinality(sleeps) = Cardinality(running)
               /\ \A k \in sleeps : (k - 1) \in Polls(i) /\ (k + 1) \in Polls(i)

\* the position in execute's log of the one call of `op`
The(i, op) == CHOOSE k \in At(i, {op}) : TRUE

\* C7 (ingest path wiring): with a df_generator, submit_materialization_job
\* is never called; get_dataframe_info, df_generator, upload_df_pandas and
\* ingest_dataframe are each called at most once and only in this order, each
\* after the one before it returned; upload gets the signed url and ingest the
\* df_path that get_dataframe_info returned; and once a job id is recorded all
\* four were called and the id is the one ingest_dataframe returned
C7_IngestWiring ==
    \A i \in Invocations :
        df_generator =>
            /\ At(i, {"submit_materialization_job"}) = {}
            /\ \A op \in IngestOps : Cardinality(At(i, {op})) <= 1
            /\ At(i, {"df_generator"}) # {} =>
                 /\ At(i, {"get_dataframe_info"}) # {}
                 /\ The(i, "df_generator") = The(i, "get_dataframe_info") + 1
                 /\ log[i][The(i, "get_dataframe_info")].ok
            /\ At(i, {"upload_df_pandas"}) # {} =>
                 /\ At(i, {"df_generator"}) # {}
                 /\ The(i, "upload_df_pandas") = The(i, "df_generator") + 1
                 /\ log[i][The(i, "df_generator")].ok
                 /\ log[i][The(i, "upload_df_pandas")].arg =
                      log[i][The(i, "get_dataframe_info")].url
            /\ At(i, {"ingest_dataframe"}) # {} =>
                 /\ At(i, {"upload_df_pandas"}) # {}
                 /\ The(i, "ingest_dataframe") = The(i, "upload_df_pandas") + 1
                 /\ log[i][The(i, "upload_df_pandas")].ok
                 /\ log[i][The(i, "ingest_dataframe")].arg =
                      log[i][The(i, "get_dataframe_info")].ret
            /\ job_id[i] # 0 =>
                 /\ At(i, {"ingest_dataframe"}) # {}
                 /\ log[i][The(i, "ingest_dataframe")].ok
                 /\ job_id[i] = log[i][The(i, "ingest_dataframe")].ret

\* C7's case: the staging returned df_path 2 and url 12, the dataframe was
\* produced and uploaded, the job was ingested and its id recorded
C7_Witness ==
    /\ df_generator
    /\ job_id[1] # 0
    /\ At(1, {"ingest_dataframe"}) # {}
    /\ log[1][The(1, "ingest_dataframe")].arg = 2
    /\ log[1][The(1, "upload_df_pandas")].arg = 12

\* the jobs invocation i created on the control plane
CreatedBy(i) == {j \in 1..Len(jobs) : jobs[j].by = i}

\* C8 (job-id visibility): on_kill never takes the "No job started" branch
\* once a submission call of its invocation has created a job
C8_HookSeesCreatedJob ==
    [][ \A i \in Invocations :
          (kpc[i] = "idle" /\ kpc'[i] = "returned") => CreatedBy(i) = {} ]_vars

\* C9 (the hook never raises): on_kill never ends with an exception
C9_HookNeverRaises == \A i \in Invocations : kpc[i] # "raised"

\* the calls on_kill made to the control plane
HookRemoteCalls(i) == KAt(i, {"create", "cancel_materialization_job"})

\* C10 (the hook is a no-op without a job id): an on_kill that is invoked while
\* job_id is None returns at once without raising, has created no hook and
\* cancelled nothing, and leaves job_id None and the control plane as it was
C10_HookNoOp ==
    [][ \A i \in Invocations :
          (kpc[i] = "idle" /\ kpc'[i] # "idle" /\ job_id[i] = 0) =>
              /\ kpc'[i] = "returned"
              /\ HookRemoteCalls(i)' = {}
              /\ job_id'[i] = 0
              /\ cancelReq' = cancelReq
              /\ jobs' = jobs ]_vars

\* C10's case: execute skipped, on_kill ran with job_id None and returned
C10_Witness ==
    /\ outcome[1].kind = "Skipped"
    /\ job_id[1] = 0
    /\ kpc[1] = "returned"
    /\ Len(klog[1]) = 1

(* ------------------------------------------------------------------ *)
(* C11 - C20                                                            *)
(* ------------------------------------------------------------------ *)
\* execute's call at position k raised, and no submission call (submit or
\* ingest) had been made by then
FailedBeforeSubmission(i) ==
    \E k \in 1..Len(log[i]) :
        /\ ~log[i][k].ok
        /\ \A h \in At(i, CreateOps) : h > k

\* C11 (no retry of the submission): an invocation makes at most one submission
\* call (submit_materialization_job or ingest_dataframe) and creates at most one
\* job, one for each submission call that returned; an invocation that has
\* ended, was not skipped and did not fail before its submission has made
\* exactly one submission call
C11_SingleSubmission ==
    \A i \in Invocations :
        /\ Cardinality(At(i, CreateOps)) <= 1
        /\ Cardinality(CreatedBy(i)) = Cardinality({k \in At(i, CreateOps) : log[i][k].ok})
        /\ (pc[i] = "done" /\ outcome[i].kind # "Skipped" /\ ~FailedBeforeSubmission(i)) =>
               Cardinality(At(i, CreateOps)) = 1

\* C11's case: an ingest invocation that replaced a running job, polled its
\* own job through a sleep and ended with the job's failure
C11_Witness ==
    /\ df_generator
    /\ At(1, {"cancel_materialization_job"}) # {}
    /\ At(1, {"ingest_dataframe"}) # {}
    /\ Sleeps(1) >= 1
    /\ outcome[1].kind = "JobFailed"

\* C12 (client errors are fatal and unmasked): a call of execute that raised
\* is the last call execute made (nothing after it, no retry), execute has
\* ended, and it ended with the very error the call raised
C12_ErrorsFatal ==
    \A i \in Invocations :
        \A k \in 1..Len(log[i]) :
            ~log[i][k].ok =>
                /\ k = Len(log[i])
                /\ pc[i] = "done"
                /\ outcome[i].kind = log[i][k].err

\* C12's case: the fetch inside the wait for the cancellation raised NotFound
\* after one sleep, and execute ended with NotFound
C12_Witness ==
    /\ Found(1)
    /\ Sleeps(1) >= 1
    /\ At(1, CreateOps) = {}
    /\ log[1][Len(log[1])].op = "get_materialization_job"
    /\ log[1][Len(log[1])].err = "NotFound"
    /\ log[1][Len(log[1])].arg = FoundId(1)
    /\ outcome[1].kind = "NotFound"

\* the fetches execute made of job j that returned
Fetches(i, j) ==
    {k \in At(i, {"get_materialization_job"}) : log[i][k].ok /\ log[i][k].arg = j}

\* what execute did after its call at position k: the next call, or where it
\* stands now when the call is its last
Then(i, k) == IF k < Len(log[i]) THEN log[i][k + 1].op
              ELSE IF pc[i] = "done" THEN outcome[i].kind ELSE pc[i]

\* C13 (one classification of states): for every job state s, the existing-job
\* branch and the poll loop both take s for running iff s ends in RUNNING
\* whatever the case, and for a success iff s ends in SUCCESS whatever the
\* case; the wait loop ends iff s ends in MANUALLY_CANCELLED whatever the case;
\* the poll loop raises the job's failure for every other s.  And execute acts
\* on it: it cancels, skips, leaves the wait loop and ends the poll loop so
C13_Classification ==
    /\ \A j \in 1..Len(jobs) :
         LET s == jobs[j].state IN
           /\ ExistingIsRunning(s) = EndsIn(s, S_RUNNING)
           /\ PollIsRunning(s) = EndsIn(s, S_RUNNING)
           /\ ExistingIsSuccess(s) = EndsIn(s, S_SUCCESS)
           /\ PollIsSuccess(s) = EndsIn(s, S_SUCCESS)
           /\ CancelObserved(s) = EndsIn(s, S_MANUALLY_CANCELLED)
           /\ \A r \in JobRecords(j) :
                (PollDecision(r) = "JobFailed") =
                    (~EndsIn(s, S_RUNNING) /\ ~EndsIn(s, S_SUCCESS))
    /\ \A i \in Invocations :
         /\ Found(i) =>
              /\ (Then(i, 2) \in {"cancel", "cancel_materialization_job"}) =
                     EndsIn(FoundState(i), S_RUNNING)
              /\ (Then(i, 2) = "Skipped") =
                     (EndsIn(FoundState(i), S_SUCCESS) /\ ~allow_overwrite)
              /\ \A k \in Fetches(i, FoundId(i)) :
                     (Then(i, k) \in {"wait_sleep", "sleep"}) =
                         ~EndsIn(log[i][k].st, S_MANUALLY_CANCELLED)
         /\ job_id[i] # 0 =>
              \A k \in Fetches(i, job_id[i]) :
                  /\ (Then(i, k) \in {"poll_sleep", "sleep", "IndexError"}) =
                         EndsIn(log[i][k].st, S_RUNNING)
                  /\ (Then(i, k) = "Completed") = EndsIn(log[i][k].st, S_SUCCESS)

\* C13's case: the job found was in state x_Running_, which does not end in
\* RUNNING, so execute cancelled nothing; its own job ended in x_Success and
\* execute returned
C13_Witness ==
    /\ Found(1)
    /\ FoundState(1) = <<"x", "_">> \o Cased(running_lc, {1}) \o <<"_">>
    /\ At(1, {"cancel_materialization_job"}) = {}
    /\ \E k \in Fetches(1, job_id[1]) : log[1][k].st = S_x_Success
    /\ outcome[1].kind = "Completed"

\* C14 (both loops end once the job is terminal): a terminal state stays, so a
\* loop that fetches one and sleeps again fetches it for ever; each loop ends
\* on every terminal state iff execute never goes back to sleep on a fetch
\* that returned a terminal state (MANUALLY_CANCELLED, SUCCESS or ERROR)
C14_LoopsEndOnTerminal ==
    \A i \in Invocations :
        pc[i] \in {"wait_sleep", "poll_sleep"} =>
            log[i][Len(log[i])].st \notin TerminalStates

\* C15 (the stop signal ends the wait): once on_kill has run while execute
\* waited for the cancellation of the job it found, execute makes no
\* submission call (get_dataframe_info, ingest, submit)
C15_StopEndsWait ==
    \A i \in Invocations :
        kpc[i] # "idle" => At(i, SubmissionOps \cup IngestOps) = {}

\* C16 (attempts never influence control): what execute is about to do with
\* the record it fetches of its job is the same whether the record has no "attempts" key, an
\* empty list or a list with an attempt; and after every fetch that returned a
\* running state execute goes on polling
C16_AttemptsNoInfluence ==
    /\ \A i \in Invocations :
         pc[i] = "poll_get" =>
            \A r1, r2 \in JobRecords(job_id[i]) : PollDecision(r1) = PollDecision(r2)
    /\ \A i \in Invocations :
         job_id[i] # 0 =>
            \A k \in Fetches(i, job_id[i]) :
                EndsIn(log[i][k].st, S_RUNNING) => Then(i, k) \in {"poll_sleep", "sleep"}

\* find_materialization_job returned (a job or None)
FindReturned(i) == \E k \in At(i, {"find_materialization_job"}) : log[i][k].ok

\* C17 (safe re-invocation): with allow_overwrite false, an invocation that
\* follows one that returned Completed, and whose find returned, has returned
\* Skipped; create and find are all it called, and it created no job
C17_SafeReinvocation ==
    \A i \in Invocations :
        ( /\ ~allow_overwrite
          /\ \E h \in Invocations : h < i /\ outcome[h].kind = "Completed"
          /\ FindReturned(i) ) =>
            /\ pc[i] = "done"
            /\ outcome[i].kind = "Skipped"
            /\ Len(log[i]) = 2
            /\ CreatedBy(i) = {}
            /\ job_id[i] = 0

\* C17's case: the first invocation replaced a job and completed, the second
\* one found the first one's job and skipped
C17_Witness ==
    /\ ~allow_overwrite
    /\ outcome[1].kind = "Completed"
    /\ Len(jobs) = 2
    /\ outcome[2].kind = "Skipped"
    /\ FoundId(2) = job_id[1]

\* every cancel on_kill issued was for self.job_id, the id this invocation's
\* submission call returned, of a job this invocation created, and not for
\* the job find returned
HookCancelsOwn(i) ==
    \A k \in KAt(i, {"cancel_materialization_job"}) :
        /\ klog[i][k].arg = job_id[i]
        /\ \E c \in At(i, CreateOps) : log[i][c].ok /\ log[i][c].ret = klog[i][k].arg
        /\ klog[i][k].arg \in CreatedBy(i)
        /\ Found(i) => klog[i][k].arg # FoundId(i)

\* C18 (the hook only targets the invocation's own job): in every step, a
\* job_id that is set stays as it is, and every cancel on_kill has issued is
\* for the id the invocation's submission call returned, never for the id of
\* the job that was found
C18_HookTargetsOwnJob ==
    [][ \A i \in Invocations :
          /\ job_id[i] # 0 => job_id'[i] = job_id[i]
          /\ HookCancelsOwn(i)' ]_vars

\* C18's case: a job was found and replaced, on_kill cancelled the new job
C18_Witness ==
    /\ Found(1)
    /\ job_id[1] # 0
    /\ kpc[1] = "returned"
    /\ KAt(1, {"cancel_materialization_job"}) # {}
    /\ job_id[1] \in cancelReq
    /\ FoundId(1) \notin cancelReq

\* find returned no job, or a job whose state ends neither in RUNNING nor in
\* SUCCESS
FoundNothingToKeep(i) ==
    /\ FindReturned(i)
    /\ \/ ~Found(i)
       \/ ~EndsIn(FoundState(i), S_RUNNING) /\ ~EndsIn(FoundState(i), S_SUCCESS)

\* C19 (an existing job in another state is replaced without a cancel): when
\* find returned None or a job whose state ends neither in RUNNING nor in
\* SUCCESS, execute cancels nothing, goes from find straight to its
\* submission whatever allow_overwrite is, makes at most one submission call
\* (exactly one once it has ended without a failure before it), and fetches
\* only the job it created
C19_ReplacedWithoutCancel ==
    \A i \in Invocations :
        FoundNothingToKeep(i) =>
            /\ At(i, {"cancel_materialization_job"}) = {}
            /\ Then(i, 2) \in {"submit", "submit_materialization_job", "stage",
                                "get_dataframe_info"}
            /\ Cardinality(At(i, CreateOps)) <= 1
            /\ (pc[i] = "done" /\ ~FailedBeforeSubmission(i)) =>
                   Cardinality(At(i, CreateOps)) = 1
            /\ \A k \in At(i, {"get_materialization_job"}) :
                   /\ job_id[i] # 0
                   /\ log[i][k].arg = job_id[i]
                   /\ log[i][k].arg \in CreatedBy(i)

\* C19's case: the job found was in state x_manually_cancelled,
\* allow_overwrite is false, and execute submitted and completed its own job
C19_Witness ==
    /\ ~allow_overwrite
    /\ Found(1)
    /\ FoundState(1) = S_x_manually_cancelled
    /\ Sleeps(1) >= 1
    /\ outcome[1].kind = "Completed"

StagingOps == {"get_dataframe_info", "df_generator", "upload_df_pandas"}

\* C20 (a failed staging creates no job): when get_dataframe_info,
\* df_generator or upload_df_pandas raised, execute has ended with that error,
\* ingest_dataframe (and any submission) was never called, no job was created,
\* job_id is None, and an on_kill, if it ran, returned without a call
C20_FailedStaging ==
    \A i \in Invocations :
        \A k \in At(i, StagingOps) :
            ~log[i][k].ok =>
                /\ At(i, CreateOps) = {}
                /\ CreatedBy(i) = {}
                /\ pc[i] = "done"
                /\ outcome[i].kind = log[i][k].err
                /\ job_id[i] = 0
                /\ kpc[i] \in {"idle", "returned"}
                /\ HookRemoteCalls(i) = {}
                /\ cancelReq \subseteq {FoundId(i)}

\* C20's case: a running job was found and cancelled, the upload raised, and
\* the on_kill that followed did nothing
C20_Witness ==
    /\ Found(1)
    /\ At(1, {"cancel_materialization_job"}) # {}
    /\ \E k \in At(1, {"upload_df_pandas"}) : ~log[1][k].ok
    /\ outcome[1].kind = "TransportError"
    /\ kpc[1] = "returned"
    /\ Len(klog[1]) = 1

====
